---- MODULE Spec2Model ----
(***************************************************************************)
(* jolt (JOb Log Ticket): a command-line tool that lists the failed GitHub *)
(* Actions workflow runs of a repository and the failed jobs of each run.  *)
(*                                                                         *)
(* The module models src/jolt.py: the GitHubClient operations, the helper  *)
(* format_time_ago, display_failures and the entry point main.  Python     *)
(* strings are sequences of one-character strings, Python's None is the    *)
(* empty set and a present value v is the singleton {v}.  The server's     *)
(* responses carry every field the code reads; a request either succeeds   *)
(* or raises.                                                              *)
(***************************************************************************)
EXTENDS Integers, Sequences, FiniteSets, TLC

VARIABLES
    token,        \* main: --token / GITHUB_TOKEN (optional string)
    repo,         \* main: --repo
    workflow,     \* main: --workflow (optional string)
    pr,           \* main: --pr (optional integer)
    limit,        \* main: --limit
    pc,           \* position of the process inside main / display_failures
    owner,        \* main: owner after the split
    repo_name,    \* main: repo_name after the split
    pr_head,      \* get_pr_workflow_runs: head of the PR (optional)
    runs,         \* main: runs returned by the selected client operation
    workflow_runs,\* display_failures: its parameter (runs[:limit])
    idx,          \* display_failures: position of the loop in workflow_runs
    failed_jobs,  \* display_failures: failed jobs of the current run
    http,         \* every request issued through GitHubClient._get, with its outcome
    out,          \* everything printed on the console, in order
    exit_code,    \* exit status of the process (optional)
    api,          \* the server: the runs it holds, each with its jobs
    unit,         \* the call under test of a function-level specification
    result        \* its return value (optional)

vars == <<token, repo, workflow, pr, limit, pc, owner, repo_name, pr_head, runs,
          workflow_runs, idx, failed_jobs, http, out, exit_code, api, unit, result>>

\* fixed during one invocation
cli == <<token, repo, workflow, pr, limit, api>>

-----------------------------------------------------------------------------
(* Bounds of the model *)

MaxRuns == 3        \* runs the server holds (one response of the runs endpoint)
MaxLimit == 3       \* --limit ranges over -MaxNegLimit..MaxLimit
MaxNegLimit == 1
MaxRepoLen == 4     \* longest generated --repo string
MaxNameLen == 2     \* longest generated run name
MaxFilterLen == 1   \* longest generated workflow-name filter
MaxNameRuns == 2    \* runs in a generated list handed to get_workflow_runs
MaxPRRuns == 3      \* runs in a generated list handed to get_pr_workflow_runs
MaxRefs == 1        \* pull-request references of one generated run
Window == 3         \* elapsed seconds examined on each side of a boundary

-----------------------------------------------------------------------------
(* Python values *)

None == {}
Some(v) == {v}
Val(o) == CHOOSE v \in o : TRUE

Min(a, b) == IF a < b THEN a ELSE b
Max(a, b) == IF a < b THEN b ELSE a

\* Python truthiness of an optional string / an optional integer
TruthyStr(o) == o # None /\ Val(o) # <<>>
TruthyInt(o) == o # None /\ Val(o) # 0

\* s[:k] without the truncation
SliceToAll(s, k) == s

\* s[:k]
SliceTo(s, k) ==
    LET n == Len(s)
        stop == IF k < 0 THEN Max(n + k, 0) ELSE Min(k, n)
    IN  SubSeq(s, 1, stop)

\* sub in s
Contains(sub, s) ==
    \E i \in 0..(Len(s) - Len(sub)) : SubSeq(s, i + 1, i + Len(sub)) = sub

UpperCase == <<"A","B","C","D","E","F","G","H","I","J","K","L","M",
               "N","O","P","Q","R","S","T","U","V","W","X","Y","Z">>
LowerCase == <<"a","b","c","d","e","f","g","h","i","j","k","l","m",
               "n","o","p","q","r","s","t","u","v","w","x","y","z">>

LowerChar(c) ==
    IF \E i \in 1..26 : UpperCase[i] = c
    THEN LowerCase[CHOOSE i \in 1..26 : UpperCase[i] = c]
    ELSE c

\* s.lower() that leaves the case alone
LowerKeep(s) == s

\* s.lower()
Lower(s) == [i \in 1..Len(s) |-> LowerChar(s[i])]

\* s.split(sep)
RECURSIVE Split(_, _)
Split(s, sep) ==
    IF \E i \in 1..Len(s) : s[i] = sep
    THEN LET i == CHOOSE k \in 1..Len(s) :
                     s[k] = sep /\ \A j \in 1..(k - 1) : s[j] # sep
         IN  <<SubSeq(s, 1, i - 1)>> \o Split(SubSeq(s, i + 1, Len(s)), sep)
    ELSE <<s>>

Digit == <<"0","1","2","3","4","5","6","7","8","9">>

\* str(n) for n >= 0
RECURSIVE Str(_)
Str(n) == IF n < 10 THEN <<Digit[n + 1]>> ELSE Str(n \div 10) \o <<Digit[(n % 10) + 1]>>

\* all sequences over S of length at most n
SeqsUpTo(S, n) == UNION {[1..k -> S] : k \in 0..n}

-----------------------------------------------------------------------------
(* GitHubClient *)

\* get_workflow_runs, after the GET: the optional client-side name filter
get_workflow_runs(response, workflow_name) ==
    IF TruthyStr(workflow_name)
    THEN LET workflow_name_lower == Lower(Val(workflow_name))
         IN  SelectSeq(response,
                       LAMBDA r : Contains(workflow_name_lower, Lower(r.name)))
    ELSE response

\* get_pr_workflow_runs requiring both the commit and the reference to match
get_pr_workflow_runs_both(response, head_sha, pr_number) ==
    SelectSeq(response,
              LAMBDA r : /\ r.head_sha = head_sha
                         /\ \E k \in 1..Len(r.pull_requests) :
                                r.pull_requests[k].number = pr_number)

\* get_pr_workflow_runs, after the two GETs: runs associated with the PR
get_pr_workflow_runs(response, head_sha, pr_number) ==
    SelectSeq(response,
              LAMBDA r : \/ r.head_sha = head_sha
                         \/ \E k \in 1..Len(r.pull_requests) :
                                r.pull_requests[k].number = pr_number)

\* get_failed_jobs that keeps every job
get_failed_jobs_all(jobs) == jobs

\* get_failed_jobs, after get_jobs_for_run
get_failed_jobs(jobs) == SelectSeq(jobs, LAMBDA j : j.conclusion = "failure")

-----------------------------------------------------------------------------
(* format_time_ago *)

SecondsPerDay == 86400

\* timedelta normalises to days (may be negative) and 0 <= seconds < 86400
DeltaDays(now, dt) == (now - dt) \div SecondsPerDay
DeltaSeconds(now, dt) == (now - dt) % SecondsPerDay

Ago(n, u) == Str(n) \o <<u, " ", "a", "g", "o">>
JustNow == <<"j", "u", "s", "t", " ", "n", "o", "w">>

format_time_ago(dt, now) ==
    IF DeltaDays(now, dt) > 0 THEN Ago(DeltaDays(now, dt), "d")
    ELSE IF DeltaSeconds(now, dt) >= 3600 THEN Ago(DeltaSeconds(now, dt) \div 3600, "h")
    ELSE IF DeltaSeconds(now, dt) >= 60 THEN Ago(DeltaSeconds(now, dt) \div 60, "m")
    ELSE JustNow

-----------------------------------------------------------------------------
(* The command line and the server of the pipeline specification *)

AcmeWidgets == <<"a","c","m","e","/","w","i","d","g","e","t","s">>

Tokens == {None, Some(<<>>), Some(<<"t","o","k">>)}
Repos == {AcmeWidgets, <<"/","w">>, <<"a","c","m","e">>, <<"a","/","b","/","c">>}
Workflows == {None, Some(<<>>), Some(<<"c","i">>)}
PRs == {None, Some(0), Some(1)}
Limits == (0 - MaxNegLimit)..MaxLimit

\* the pull request number 1 of the server
PRHead == [sha |-> "s1", ref |-> "feat"]

\* the present time and the runs the server may hold, each with its jobs
Now == 10 * SecondsPerDay

Step(n, c) == [name |-> n, conclusion |-> c]

\* a job that ran for d seconds (None: a timestamp is missing) with the given steps
Job(i, c, d, steps) ==
    [id |-> i, name |-> "job", conclusion |-> c, steps |-> steps,
     started_at |-> IF d = None THEN None ELSE Some(Now - 600),
     completed_at |-> IF d = None THEN None ELSE Some(Now - 600 + Val(d))]

ServerRuns == {
    \* same head commit as the PR, no PR reference; one failed job
    [name |-> <<"C","I">>, head_branch |-> "feat", head_sha |-> "s1",
     pull_requests |-> <<>>, created_at |-> Now - 7200,
     jobs |-> <<Job(1, "failure", Some(90),
                    <<Step("build", "success"), Step("test", "failure")>>)>>],
    \* references the PR from another commit; only successful jobs
    [name |-> <<"D","o","c","s">>, head_branch |-> "feat", head_sha |-> "s2",
     pull_requests |-> <<[number |-> 1]>>, created_at |-> Now - 90,
     jobs |-> <<Job(1, "success", Some(30), <<Step("build", "success")>>),
                Job(2, "success", Some(45), <<>>)>>],
    \* not associated with the PR; a successful and a failed job
    [name |-> <<"c","i","-","l","i","n","t">>, head_branch |-> "main", head_sha |-> "s2",
     pull_requests |-> <<[number |-> 2]>>, created_at |-> Now - 3 * SecondsPerDay,
     jobs |-> <<Job(1, "success", Some(30), <<Step("build", "success")>>),
                Job(2, "failure", None, <<Step("lint", "cancelled")>>)>>],
    \* references the PR; no job at all
    [name |-> <<"D","o","c","s">>, head_branch |-> "feat", head_sha |-> "s3",
     pull_requests |-> <<[number |-> 2], [number |-> 1]>>, created_at |-> Now - 5,
     jobs |-> <<>>] }

\* what the runs endpoint returns for the i-th run of the server
ApiRun(sr, i) ==
    [id |-> i, name |-> sr.name, run_number |-> i, head_branch |-> sr.head_branch,
     head_sha |-> sr.head_sha, pull_requests |-> sr.pull_requests,
     created_at |-> sr.created_at]

ApiRuns(server) == [i \in 1..Len(server) |-> ApiRun(server[i], i)]

\* what the jobs endpoint returns for a run
ApiJobs(server, run_id) == server[run_id].jobs

\* the ways a GET fails: raise_for_status (HTTPError) or the transport
Failures == {[kind |-> "HTTPError", status |-> 401],
             [kind |-> "HTTPError", status |-> 404],
             [kind |-> "HTTPError", status |-> 500],
             [kind |-> "ConnectionError", status |-> 0]}

Outcomes == {[kind |-> "ok", status |-> 200]} \cup Failures

\* one entry of http
Request(path, id, params, outcome) ==
    [path |-> path, owner |-> owner, repo |-> repo_name, id |-> id,
     params |-> params, status |-> outcome.status, kind |-> outcome.kind]

-----------------------------------------------------------------------------
(* main *)

Error(text) == [kind |-> "error", text |-> text]

\* the except clauses of main
Handler(f) ==
    IF f.kind = "HTTPError"
    THEN IF f.status = 404 THEN Error("not found")
         ELSE IF f.status = 401 THEN Error("invalid token")
         ELSE Error("api error")
    ELSE Error("exception")

\* the tuple assignment owner, repo_name = parts raises ValueError
ValueError(parts) == Len(parts) # 2

Init ==
    /\ token \in Tokens
    /\ repo \in Repos
    /\ workflow \in Workflows
    /\ pr \in PRs
    /\ limit \in Limits
    /\ api \in SeqsUpTo(ServerRuns, MaxRuns)
    /\ pc = "main"
    /\ owner = <<>>
    /\ repo_name = <<>>
    /\ pr_head = None
    /\ runs = <<>>
    /\ workflow_runs = <<>>
    /\ idx = 0
    /\ failed_jobs = <<>>
    /\ http = <<>>
    /\ out = <<>>
    /\ exit_code = None
    /\ unit = None
    /\ result = None

\* sys.exit(1) after printing e
Exit1(e) ==
    /\ out' = Append(out, e)
    /\ exit_code' = Some(1)
    /\ pc' = "exit"

\* main, up to the first request: the two validations, the banner, the branch on pr
MainValidate ==
    /\ pc = "main"
    /\ IF ~TruthyStr(token)
       THEN /\ Exit1(Error("token required"))
            /\ UNCHANGED <<owner, repo_name>>
       ELSE LET parts == Split(repo, "/")
            IN  IF ValueError(parts)
                THEN /\ Exit1(Error("repo format"))
                     /\ UNCHANGED <<owner, repo_name>>
                ELSE /\ owner' = parts[1]
                     /\ repo_name' = parts[2]
                     /\ exit_code' = exit_code
                     /\ IF TruthyInt(pr)
                        THEN /\ out' = out \o <<[kind |-> "banner"],
                                                [kind |-> "note", text |-> "pr"]>>
                             /\ pc' = "pr_details"
                        ELSE /\ out' = Append(out, [kind |-> "banner"])
                             /\ pc' = "list_runs"
    /\ UNCHANGED <<cli, pr_head, runs, workflow_runs, idx, failed_jobs, http, unit, result>>

\* a GET that raises: main's except clause prints and exits with status 1
Raise(req) ==
    /\ http' = Append(http, req)
    /\ Exit1(Handler(req))

\* get_pr_workflow_runs: the PR-details request
GetPullRequest ==
    /\ pc = "pr_details"
    /\ \E o \in Outcomes :
         LET req == Request("pulls", Val(pr), [none |-> TRUE], o)
         IN  IF o.kind = "ok"
             THEN /\ http' = Append(http, req)
                  /\ pr_head' = Some(PRHead)
                  /\ pc' = "pr_runs"
                  /\ UNCHANGED <<out, exit_code>>
             ELSE /\ Raise(req)
                  /\ UNCHANGED pr_head
    /\ UNCHANGED <<cli, owner, repo_name, runs, workflow_runs, idx, failed_jobs,
                   unit, result>>

\* get_pr_workflow_runs: the runs request of the PR's branch and the filter
GetPullRequestRuns ==
    /\ pc = "pr_runs"
    /\ \E o \in Outcomes :
         LET req == Request("runs", 0,
                            [status |-> "failure", branch |-> Val(pr_head).ref,
                             per_page |-> 50], o)
         IN  IF o.kind = "ok"
             THEN /\ http' = Append(http, req)
                  /\ runs' = get_pr_workflow_runs(ApiRuns(api), Val(pr_head).sha, Val(pr))
                  /\ pc' = "display"
                  /\ UNCHANGED <<out, exit_code>>
             ELSE /\ Raise(req)
                  /\ UNCHANGED runs
    /\ UNCHANGED <<cli, owner, repo_name, pr_head, workflow_runs, idx, failed_jobs,
                   unit, result>>

\* get_workflow_runs: the runs request and the name filter
GetWorkflowRuns ==
    /\ pc = "list_runs"
    /\ \E o \in Outcomes :
         LET req == Request("runs", 0, [status |-> "failure", per_page |-> limit], o)
         IN  IF o.kind = "ok"
             THEN /\ http' = Append(http, req)
                  /\ runs' = get_workflow_runs(ApiRuns(api), workflow)
                  /\ pc' = "display"
                  /\ UNCHANGED <<out, exit_code>>
             ELSE /\ Raise(req)
                  /\ UNCHANGED runs
    /\ UNCHANGED <<cli, owner, repo_name, pr_head, workflow_runs, idx, failed_jobs,
                   unit, result>>

\* main after the selection: the workflow note, then display_failures(runs[:limit])
\* up to its first request
Display ==
    /\ pc = "display"
    /\ workflow_runs' = SliceTo(runs, limit)
    /\ LET noted == IF TruthyStr(workflow)
                    THEN Append(out, [kind |-> "note", text |-> "workflow"])
                    ELSE out
       IN  IF workflow_runs' = <<>>
           THEN /\ out' = Append(noted, [kind |-> "empty"])
                /\ exit_code' = Some(0)
                /\ pc' = "exit"
                /\ idx' = idx
           ELSE /\ out' = noted
                /\ exit_code' = exit_code
                /\ pc' = "fetch_jobs"
                /\ idx' = 1
    /\ UNCHANGED <<cli, owner, repo_name, pr_head, runs, failed_jobs, http, unit, result>>

\* display_failures that swallows a failed request and goes on with the next run
GetFailedJobsSwallow ==
    /\ pc = "fetch_jobs"
    /\ \E o \in Outcomes :
         LET run == workflow_runs[idx]
             req == Request("jobs", run.id, [none |-> TRUE], o)
         IN  /\ http' = Append(http, req)
             /\ failed_jobs' = IF o.kind = "ok"
                               THEN get_failed_jobs(ApiJobs(api, run.id))
                               ELSE <<>>
             /\ pc' = "render"
             /\ UNCHANGED <<out, exit_code>>
    /\ UNCHANGED <<cli, owner, repo_name, pr_head, runs, workflow_runs, idx, unit, result>>

\* display_failures: client.get_failed_jobs for the current run
GetFailedJobs ==
    /\ pc = "fetch_jobs"
    /\ \E o \in Outcomes :
         LET run == workflow_runs[idx]
             req == Request("jobs", run.id, [none |-> TRUE], o)
         IN  IF o.kind = "ok"
             THEN /\ http' = Append(http, req)
                  /\ failed_jobs' = get_failed_jobs(ApiJobs(api, run.id))
                  /\ pc' = "render"
                  /\ UNCHANGED <<out, exit_code>>
             ELSE /\ Raise(req)
                  /\ UNCHANGED failed_jobs
    /\ UNCHANGED <<cli, owner, repo_name, pr_head, runs, workflow_runs, idx, unit, result>>

\* the panel and the table of one run
Panel(run) ==
    [kind |-> "panel", run_id |-> run.id, name |-> run.name,
     run_number |-> run.run_number, branch |-> run.head_branch,
     commit |-> run.head_sha,
     prs |-> [k \in 1..Len(run.pull_requests) |-> run.pull_requests[k].number],
     started |-> format_time_ago(run.created_at, Now)]

\* the name of the first failed step of a job, or "Unknown"
FailedStep(job) ==
    LET failing == SelectSeq(job.steps, LAMBDA st : st.conclusion = "failure")
    IN  IF failing # <<>> THEN failing[1].name ELSE "Unknown"

\* completed_at - started_at in seconds, None for the "-" of a missing timestamp
Duration(job) ==
    IF job.started_at # None /\ job.completed_at # None
    THEN Some(Val(job.completed_at) - Val(job.started_at))
    ELSE None

TableOf(run, jobs) ==
    [kind |-> "table", run_id |-> run.id,
     rows |-> [k \in 1..Len(jobs) |->
                  [job |-> jobs[k].id, name |-> jobs[k].name,
                   duration |-> Duration(jobs[k]), failed_step |-> FailedStep(jobs[k])]]]

\* display_failures: the rest of the loop body, then the next run or the return
Render ==
    /\ pc = "render"
    /\ LET run == workflow_runs[idx]
       IN  out' = IF failed_jobs # <<>>
                  THEN out \o <<Panel(run), TableOf(run, failed_jobs), [kind |-> "blank"]>>
                  ELSE out
    /\ IF idx < Len(workflow_runs)
       THEN /\ idx' = idx + 1
            /\ pc' = "fetch_jobs"
            /\ exit_code' = exit_code
       ELSE /\ idx' = idx
            /\ pc' = "exit"
            /\ exit_code' = Some(0)
    /\ UNCHANGED <<cli, owner, repo_name, pr_head, runs, workflow_runs, failed_jobs,
                   http, unit, result>>

Next ==
    \/ MainValidate
    \/ GetPullRequest
    \/ GetPullRequestRuns
    \/ GetWorkflowRuns
    \/ Display
    \/ GetFailedJobs
    \/ Render

Spec == Init /\ [][Next]_vars

-----------------------------------------------------------------------------
(* The entry point alone, over generated --repo strings *)

DefaultLimit == 10

RepoChars == {"a", "b", "/"}

InitEntry ==
    /\ token \in Tokens
    /\ repo \in SeqsUpTo(RepoChars, MaxRepoLen)
    /\ workflow = None
    /\ pr \in {None, Some(1)}
    /\ limit = DefaultLimit
    /\ api = <<>>
    /\ pc = "main"
    /\ owner = <<>>
    /\ repo_name = <<>>
    /\ pr_head = None
    /\ runs = <<>>
    /\ workflow_runs = <<>>
    /\ idx = 0
    /\ failed_jobs = <<>>
    /\ http = <<>>
    /\ out = <<>>
    /\ exit_code = None
    /\ unit = None
    /\ result = None

NextEntry == MainValidate

SpecEntry == InitEntry /\ [][NextEntry]_vars

-----------------------------------------------------------------------------
(* Function-level specifications: Init draws the arguments of one call,    *)
(* the action applies the function.                                        *)

NoProcess ==
    /\ token = None
    /\ repo = <<>>
    /\ workflow = None
    /\ pr = None
    /\ limit = DefaultLimit
    /\ api = <<>>
    /\ pc = "call"
    /\ owner = <<>>
    /\ repo_name = <<>>
    /\ pr_head = None
    /\ runs = <<>>
    /\ workflow_runs = <<>>
    /\ idx = 0
    /\ failed_jobs = <<>>
    /\ http = <<>>
    /\ out = <<>>
    /\ exit_code = None
    /\ result = None

process == <<token, repo, workflow, pr, limit, api, pc, owner, repo_name, pr_head,
             runs, workflow_runs, idx, failed_jobs, http, out, exit_code>>

\* a response of the runs endpoint built from the given fields, ids by position
Numbered(fields) == [i \in 1..Len(fields) |-> [id |-> i] @@ fields[i]]

(* get_workflow_runs *)

NameChars == {"a", "A", "b"}
Names == SeqsUpTo(NameChars, MaxNameLen)
Filters == {None} \cup {Some(f) : f \in SeqsUpTo(NameChars, MaxFilterLen)}

InitName ==
    /\ NoProcess
    /\ \E names \in SeqsUpTo(Names, MaxNameRuns), f \in Filters :
         unit = Some([fn |-> "get_workflow_runs",
                      response |-> Numbered([i \in 1..Len(names) |-> [name |-> names[i]]]),
                      workflow_name |-> f])

CallGetWorkflowRuns ==
    /\ result = None
    /\ unit # None
    /\ Val(unit).fn = "get_workflow_runs"
    /\ result' = Some(get_workflow_runs(Val(unit).response, Val(unit).workflow_name))
    /\ UNCHANGED <<process, unit>>

SpecName == InitName /\ [][CallGetWorkflowRuns]_vars

(* get_pr_workflow_runs *)

Shas == {"s1", "s2"}
PRNumbers == {1, 2}
RefLists == SeqsUpTo([number : PRNumbers], MaxRefs)

InitPR ==
    /\ NoProcess
    /\ \E rs \in SeqsUpTo([head_sha : Shas, pull_requests : RefLists], MaxPRRuns),
          n \in PRNumbers \cup {0} :
         unit = Some([fn |-> "get_pr_workflow_runs", response |-> Numbered(rs),
                      head_sha |-> "s1", pr_number |-> n])

CallGetPRWorkflowRuns ==
    /\ result = None
    /\ unit # None
    /\ Val(unit).fn = "get_pr_workflow_runs"
    /\ result' = Some(get_pr_workflow_runs(Val(unit).response, Val(unit).head_sha,
                                           Val(unit).pr_number))
    /\ UNCHANGED <<process, unit>>

SpecPR == InitPR /\ [][CallGetPRWorkflowRuns]_vars

(* format_time_ago *)

\* elapsed seconds around the boundaries of the cascade, past and future
Boundaries == {0, 60, 3600, SecondsPerDay, 2 * SecondsPerDay,
               0 - 60, 0 - 3600, 0 - SecondsPerDay}
Elapsed == UNION {(b - Window)..(b + Window) : b \in Boundaries}

InitTime ==
    /\ NoProcess
    /\ \E e \in Elapsed :
         unit = Some([fn |-> "format_time_ago", now |-> Now, dt |-> Now - e])

CallFormatTimeAgo ==
    /\ result = None
    /\ unit # None
    /\ Val(unit).fn = "format_time_ago"
    /\ result' = Some(format_time_ago(Val(unit).dt, Val(unit).now))
    /\ UNCHANGED <<process, unit>>

SpecTime == InitTime /\ [][CallFormatTimeAgo]_vars

-----------------------------------------------------------------------------
(* Properties *)

Ids(s) == [k \in 1..Len(s) |-> s[k].id]
HasFailure(jobs) == \E k \in 1..Len(jobs) : jobs[k].conclusion = "failure"
Failed(run) == HasFailure(ApiJobs(api, run.id))

Panels == SelectSeq(out, LAMBDA e : e.kind = "panel")
PanelIds == [k \in 1..Len(Panels) |-> Panels[k].run_id]
JobRequests == SelectSeq(http, LAMBDA r : r.path = "jobs")
JobRequestIds == [k \in 1..Len(JobRequests) |-> JobRequests[k].id]
AllOk == \A q \in 1..Len(http) : http[q].kind = "ok"
Completed == pc = "exit" /\ http # <<>> /\ AllOk

\* res is a subsequence of the numbered list s holding exactly the elements that satisfy P
ExactlyInOrder(res, s, P(_)) ==
    /\ \A k \in 1..Len(res) : res[k].id \in 1..Len(s) /\ res[k] = s[res[k].id]
    /\ \A k, l \in 1..Len(res) : k < l => res[k].id < res[l].id
    /\ \A i \in 1..Len(s) : P(s[i]) <=> \E k \in 1..Len(res) : res[k].id = i

\* C1: a panel or table is on the console only for a run whose jobs were fetched
\* and contain at least one job with conclusion "failure"
C1_PanelOnlyWithFailedJob ==
    \A k \in 1..Len(out) :
        out[k].kind \in {"panel", "table"} =>
            /\ \E q \in 1..Len(http) :
                   http[q].path = "jobs" /\ http[q].id = out[k].run_id /\ http[q].kind = "ok"
            /\ HasFailure(ApiJobs(api, out[k].run_id))

\* a completed run in which a candidate with only successful jobs was fetched and
\* left out while another candidate got its panel
C1_Witness ==
    /\ Completed
    /\ repo = AcmeWidgets
    /\ Panels # <<>>
    /\ \E i \in 1..Len(workflow_runs) :
          /\ ApiJobs(api, workflow_runs[i].id) # <<>>
          /\ ~Failed(workflow_runs[i])
          /\ workflow_runs[i].id \in {JobRequestIds[k] : k \in 1..Len(JobRequests)}
          /\ \A k \in 1..Len(PanelIds) : PanelIds[k] # workflow_runs[i].id

\* C2: get_pr_workflow_runs returns exactly the runs whose head commit is the PR's
\* or whose pull-request references name the PR, in the order of the response
C2_PRRunsUnion ==
    result # None =>
        LET c == Val(unit)
            Associated(r) ==
                \/ r.head_sha = c.head_sha
                \/ c.pr_number \in {r.pull_requests[k].number :
                                         k \in 1..Len(r.pull_requests)}
        IN  ExactlyInOrder(Val(result), c.response, Associated)

\* one call with a run matching by commit only, a later one by reference only,
\* and one matching neither
C2_Witness ==
    /\ result # None
    /\ Len(Val(result)) = 2
    /\ LET c == Val(unit)
           Refs(r) == {r.pull_requests[k].number : k \in 1..Len(r.pull_requests)}
       IN  \E i, j, x \in 1..Len(c.response) :
              /\ i < j
              /\ c.response[i].head_sha = c.head_sha /\ c.pr_number \notin Refs(c.response[i])
              /\ c.response[j].head_sha # c.head_sha /\ c.pr_number \in Refs(c.response[j])
              /\ c.response[x].head_sha # c.head_sha /\ c.pr_number \notin Refs(c.response[x])
              /\ Ids(Val(result)) = <<i, j>>

SameLetter(a, b) ==
    \/ a = b
    \/ \E i \in 1..26 : {a, b} = {UpperCase[i], LowerCase[i]}

\* f occurs in name when case is ignored
ContainsIgnoringCase(f, name) ==
    \E off \in 0..(Len(name) - Len(f)) :
        \A i \in 1..Len(f) : SameLetter(f[i], name[off + i])

\* C3: get_workflow_runs returns exactly the runs whose name contains the filter,
\* case ignored, in the order of the response; without a filter, the response itself
C3_NameFilter ==
    result # None =>
        LET c == Val(unit)
            Matches(r) == ContainsIgnoringCase(Val(c.workflow_name), r.name)
        IN  IF c.workflow_name = None
            THEN Val(result) = c.response
            ELSE ExactlyInOrder(Val(result), c.response, Matches)

\* a filter that keeps a run only because case is ignored and drops another run
C3_Witness ==
    /\ result # None
    /\ Val(unit).workflow_name = Some(<<"a">>)
    /\ Len(Val(unit).response) = 2
    /\ Val(unit).response[1].name = <<"b">>
    /\ Val(unit).response[2].name = <<"b", "A">>
    /\ Ids(Val(result)) = <<2>>

\* exactly one "/" with something on both sides of it
WellFormedRepo(r) ==
    /\ Cardinality({i \in 1..Len(r) : r[i] = "/"}) = 1
    /\ r[1] # "/"
    /\ r[Len(r)] # "/"

\* C4: whatever --limit is, zero and negative values included, at most limit runs
\* are handed to display_failures, fetched and displayed
C4_AtMostLimit ==
    WellFormedRepo(repo) =>
        /\ Len(workflow_runs) <= Max(limit, 0)
        /\ Len(JobRequests) <= Max(limit, 0)
        /\ Len(Panels) <= Max(limit, 0)

\* the cascade on the elapsed seconds e = now - T
Cascade(e) ==
    IF e \div SecondsPerDay > 0 THEN Ago(e \div SecondsPerDay, "d")
    ELSE IF e >= 3600 THEN Ago(e \div 3600, "h")
    ELSE IF e >= 60 THEN Ago(e \div 60, "m")
    ELSE JustNow

\* C5: for every timestamp, past or future, format_time_ago is the cascade on the
\* elapsed seconds; less than 60 elapsed seconds, a future timestamp included,
\* give "just now"
C5_TimeAgoCascade ==
    result # None =>
        Val(result) = Cascade(Val(unit).now - Val(unit).dt)

\* C6: with a token, --repo is accepted iff it splits on "/" into exactly two
\* non-empty components; any other string is rejected with the format error
\* and exit status 1
C6_RepoAcceptedIffWellFormed ==
    (TruthyStr(token) /\ pc # "main") =>
        IF WellFormedRepo(repo)
        THEN pc # "exit"
        ELSE pc = "exit" /\ exit_code = Some(1) /\ out = <<Error("repo format")>>

ConfigurationError == ~TruthyStr(token) \/ ~WellFormedRepo(repo)

\* C7: on a configuration error (no token, or a malformed --repo) the process
\* ends with status 1 and never issues a request
C7_ConfigurationErrorNoRequest ==
    ConfigurationError =>
        /\ http = <<>>
        /\ pc = "exit" => exit_code = Some(1)

\* the end-to-end scenario: acme/widgets, no PR, no filter, limit 2, three runs on
\* the server of which the first and the third have a failed job, no request fails
Scenario ==
    /\ repo = AcmeWidgets
    /\ TruthyStr(token)
    /\ pr = None
    /\ workflow = None
    /\ limit = 2
    /\ Len(api) = 3
    /\ HasFailure(api[1].jobs)
    /\ ~HasFailure(api[2].jobs)
    /\ HasFailure(api[3].jobs)
    /\ Completed

\* C8 as stated: the scenario ends with exactly two panels
C8_TwoPanels == Scenario => Len(Panels) = 2

\* C8 amended: the scenario ends with exactly one panel, the first run's; the
\* second run is fetched and skipped, the third is never fetched
C8_OnePanel ==
    Scenario => PanelIds = <<1>> /\ JobRequestIds = <<1, 2>>

C8_Witness == Scenario /\ exit_code = Some(0)

\* C9: whenever --pr is given, 0 included, retrieval starts with the PR-details
\* request and never uses the listing with the name filter; a workflow filter
\* given with it is noted and not applied
C9_PRPathWheneverGiven ==
    (pr # None /\ WellFormedRepo(repo)) =>
        /\ pc # "list_runs"
        /\ http # <<>> => http[1].path = "pulls"
        /\ pc \in {"display", "fetch_jobs", "render"} =>
               runs = get_pr_workflow_runs(ApiRuns(api), PRHead.sha, Val(pr))

\* C10: the jobs of the candidates are requested once each, in list order; the
\* panels on the console are those of the failed runs among the candidates already
\* rendered, each printed before the next request; a failed request is the last
\* one and ends the process with status 1, the earlier panels staying; without a
\* failed request the process ends with status 0 after requesting every candidate
C10_FetchOrderAndAbort ==
    LET fetched == Len(JobRequests)
        okJobs == Len(SelectSeq(JobRequests, LAMBDA r : r.kind = "ok"))
        rendered == IF pc = "render" THEN okJobs - 1 ELSE okJobs
    IN  /\ fetched <= Len(workflow_runs)
        /\ JobRequestIds = Ids(SubSeq(workflow_runs, 1, fetched))
        /\ pc = "fetch_jobs" => fetched = idx - 1
        /\ pc = "render" => fetched = idx
        /\ PanelIds = Ids(SelectSeq(SubSeq(workflow_runs, 1, rendered), Failed))
        /\ \A q \in 1..Len(http) :
               http[q].kind # "ok" =>
                   q = Len(http) /\ pc = "exit" /\ exit_code = Some(1)
        /\ Completed => exit_code = Some(0) /\ fetched = Len(workflow_runs)

\* the request for the second candidate fails after the first one got its panel,
\* and a third candidate is left unrequested
C10_Witness ==
    /\ pc = "exit"
    /\ repo = AcmeWidgets
    /\ exit_code = Some(1)
    /\ Len(JobRequests) = 2
    /\ http[Len(http)].path = "jobs"
    /\ http[Len(http)].kind = "HTTPError"
    /\ PanelIds = <<workflow_runs[1].id>>
    /\ Len(workflow_runs) = 3

====
